---- MODULE Spec2Model ----
(***************************************************************************)
(* A model of the tube-map shortest-path core:                             *)
(*   - TubeMap (src/tube/map.py): the station dictionary and the list of   *)
(*     connections, filled one connection at a time;                       *)
(*   - NeighbourGraphBuilder.build (src/network/graph.py): the neighbour   *)
(*     graph, a dict of dicts of lists of connections;                     *)
(*   - PathFinder (src/network/path.py): name resolution, the Dijkstra     *)
(*     loop, one iteration per step, and the walk back over prev, one      *)
(*     station per step.                                                   *)
(* Python dicts are functions together with, where the code iterates over  *)
(* them, the sequence of their keys in insertion order.                    *)
(***************************************************************************)
EXTENDS Integers, Sequences, FiniteSets, TLC

\* ------------------------------------------------------------- bounds
NumStations == 4        \* stations of the network, identifiers 0 .. NumStations-1
MaxConns == 3           \* connections loaded into one TubeMap
MaxTime == 1            \* travel times are 0 .. MaxTime

\* ------------------------------------------------------ values of Python
None == -1              \* Python's None (prev[...] = None)
NoId == -2              \* a station object that has no attribute `id`
Inf == MaxConns * MaxTime + 1   \* float('inf'): above every finite sum of times

StationIds == 0 .. (NumStations - 1)
Times == 0 .. MaxTime

AllNames == <<"Acton", "Bank", "Camden", "Dalston", "Euston", "Farringdon">>
NameOf(i) == AllNames[i + 1]
UnknownName == "Zzyzx"
QueryNames == {NameOf(i) : i \in StationIds} \cup {UnknownName}

EmptyDict == << >>      \* {} : the function with the empty domain
EmptyList == << >>      \* []

VARIABLES
    stations,           \* tubemap.stations : id -> Station
    collection,         \* tubemap.connections: "list", or "absent" (no such attribute)
    connections,        \* tubemap.connections when it is a list
    pc,                 \* "load", "crashed", "idle", "search", "reconstruct", "done"
    graph,              \* PathFinder.graph : id -> (id -> list of Connection)
    graph_keys,         \* the keys of graph in insertion order
    start_name,         \* arguments of the running query
    end_name,
    start_station_id,   \* locals of get_shortest_path / run_dijkstra
    end_station_id,
    dist,
    prev,
    queue,
    station_id,         \* cursor of reconstruct_path
    id_path,
    result,             \* what the query returned, or the exception it raised
    called              \* history: an earlier call on this PathFinder has ended

vars == <<stations, collection, connections, pc, graph, graph_keys, start_name,
          end_name, start_station_id, end_station_id, dist, prev, queue,
          station_id, id_path, result, called>>

network == <<stations, collection, connections>>
bound == <<graph, graph_keys>>
locals == <<start_station_id, end_station_id, dist, prev, queue, station_id, id_path>>

\* ------------------------------------------------------------ results
Pending == [kind |-> "pending", path |-> << >>]
ReturnNone == [kind |-> "none", path |-> << >>]
ReturnPath(p) == [kind |-> "path", path |-> p]
Raise(exc) == [kind |-> exc, path |-> << >>]
Raised(r) == r.kind \in {"KeyError", "ValueError", "TypeError", "AttributeError"}

\* ------------------------------------------------------------ TubeMap
Station(i) == [id |-> i, name |-> NameOf(i)]
Connection(n, sts, t) == [id |-> n, stations |-> sts, time |-> t]

Init ==
    /\ stations = [i \in StationIds |-> Station(i)]
    /\ collection \in {"list", "absent"}
    /\ connections = EmptyList
    /\ pc = "load"
    /\ graph = EmptyDict
    /\ graph_keys = EmptyList
    /\ start_name = ""
    /\ end_name = ""
    /\ start_station_id = None
    /\ end_station_id = None
    /\ dist = EmptyDict
    /\ prev = EmptyDict
    /\ queue = EmptyList
    /\ station_id = None
    /\ id_path = EmptyList
    /\ result = Pending
    /\ called = FALSE

\* One iteration of the loop of initiate_connections: the two station
\* identifiers are looked up and put into a set, so station1 = station2
\* gives a connection that exposes a single station.
initiate_connections(station1, station2, time) ==
    /\ pc = "load"
    /\ collection = "list"
    /\ Len(connections) < MaxConns
    /\ connections' = Append(connections,
                             Connection(Len(connections) + 1, {station1, station2}, time))
    /\ UNCHANGED <<stations, collection, pc, bound, start_name, end_name, locals, result,
                   called>>

\* Shapes of connection that build() can be handed but TubeMap never makes:
\* three stations, and a station object without an identifier.
ForeignShapes == {{1, 2, 3}, {1, NoId}}

AppendForeign(sts) ==
    /\ pc = "load"
    /\ collection = "list"
    /\ Len(connections) < MaxConns
    /\ connections' = Append(connections, Connection(Len(connections) + 1, sts, 0))
    /\ UNCHANGED <<stations, collection, pc, bound, start_name, end_name, locals, result,
                   called>>

\* ------------------------------------------------- NeighbourGraphBuilder
\* A graph under construction: the dict and the order its keys were added in.
NewGraph == [graph |-> EmptyDict, keys |-> EmptyList]

\* A builder that would replace the list of a pair by the new connection.
OverwriteList(list, connection) == <<connection>>

\* graph[station1.id][station2.id].append(connection)
AppendToList(list, connection) == Append(list, connection)

add_to_station_neighbours(g, station1, station2, connection) ==
    LET g1 == IF station1 \notin DOMAIN g.graph
              THEN [graph |-> g.graph @@ (station1 :> EmptyDict),
                    keys |-> Append(g.keys, station1)]
              ELSE g
        inner == g1.graph[station1]
        inner1 == IF station2 \notin DOMAIN inner
                  THEN inner @@ (station2 :> EmptyList)
                  ELSE inner
        inner2 == [inner1 EXCEPT ![station2] = AppendToList(inner1[station2], connection)]
    IN  [graph |-> [g1.graph EXCEPT ![station1] = inner2], keys |-> g1.keys]

\* A builder that would leave out the second call of the loop body.
AddOneDirection(g, stationA, stationB, connection) ==
    add_to_station_neighbours(g, stationA, stationB, connection)

\* The two calls of build's loop body, for the unpacked pair (stationA, stationB).
AddBothDirections(g, stationA, stationB, connection) ==
    add_to_station_neighbours(
        add_to_station_neighbours(g, stationA, stationB, connection),
        stationB, stationA, connection)

Lowest(S) == CHOOSE x \in S : \A y \in S : x <= y

\* stationA, stationB = connection.stations : the set is iterated in an order
\* the hashes of the station objects decide; `swap` is that order.
UnpackFirst(sts, swap) == IF swap THEN Lowest(sts \ {Lowest(sts)}) ELSE Lowest(sts)
UnpackSecond(sts, swap) == IF swap THEN Lowest(sts) ELSE Lowest(sts \ {Lowest(sts)})

\* The loop of build from connection i on. An AttributeError is caught and
\* build returns {}; any other exception leaves build.
RECURSIVE BuildFrom(_, _, _, _)
BuildFrom(conns, i, g, order) ==
    IF i > Len(conns)
    THEN [raised |-> "", graph |-> g.graph, keys |-> g.keys]
    ELSE LET connection == conns[i]
             sts == connection.stations
         IN  IF Cardinality(sts) # 2
             THEN [raised |-> "ValueError", graph |-> EmptyDict, keys |-> EmptyList]
             ELSE IF NoId \in sts
             THEN [raised |-> "", graph |-> EmptyDict, keys |-> EmptyList]
             ELSE BuildFrom(conns, i + 1,
                            AddBothDirections(g, UnpackFirst(sts, order[i]),
                                              UnpackSecond(sts, order[i]), connection),
                            order)

\* build(tubemap), for one iteration order of every connection's station set.
\* A tubemap without the attribute `connections` raises the AttributeError
\* that build catches.
build(order) ==
    IF collection = "absent"
    THEN [raised |-> "", graph |-> EmptyDict, keys |-> EmptyList]
    ELSE BuildFrom(connections, 1, NewGraph, order)

\* PathFinder.__init__: the graph is built once; an exception of build leaves
\* no PathFinder behind.
PathFinderInit ==
    /\ pc = "load"
    /\ \E order \in [1 .. MaxConns -> BOOLEAN] :
         LET b == build(order)
         IN  /\ graph' = b.graph
             /\ graph_keys' = b.keys
             /\ IF b.raised # ""
                THEN pc' = "crashed" /\ result' = Raise(b.raised)
                ELSE pc' = "idle" /\ result' = result
    /\ UNCHANGED <<network, start_name, end_name, locals, called>>

\* ------------------------------------------------------------ PathFinder
\* conversion_dict = {value.name: key for key, value in stations.items()}
conversion_dict ==
    [n \in {stations[k].name : k \in DOMAIN stations} |->
        CHOOSE k \in DOMAIN stations : stations[k].name = n]

\* A guard that would forget the end name.
StartNameOnly(start, end) == start \in DOMAIN conversion_dict

\* The guard of the "Input stations not valid" return, negated.
NamesKnown(start, end) ==
    start \in DOMAIN conversion_dict /\ end \in DOMAIN conversion_dict

\* A query that would lack the same-station return.
NeverSame(a, b) == FALSE

\* if start_station_id == end_station_id
SameStation(a, b) == a = b

\* Python truthiness of a station identifier or None: `while station_id:`
Truthy(x) == x # None /\ x # 0

\* inf + t = inf
Plus(d, t) == IF d = Inf THEN Inf ELSE d + t

\* initialise_data_structures
InitDist(start) == [k \in (DOMAIN graph) \cup {start} |-> IF k = start THEN 0 ELSE Inf]
InitPrev == [k \in DOMAIN graph |-> None]
InitQueue == graph_keys

\* min(queue, key=lambda k: dist[k]) : the first station of least distance
MinStation(q, d) ==
    q[CHOOSE i \in 1 .. Len(q) :
        /\ \A j \in 1 .. Len(q) : d[q[i]] <= d[q[j]]
        /\ \A j \in 1 .. (i - 1) : d[q[i]] < d[q[j]]]

\* A loop that would forget to remove the station it visits.
KeepInQueue(q, x) == q

\* queue.remove(station_id) : the first occurrence goes
Remove(q, x) ==
    LET i == CHOOSE k \in 1 .. Len(q) : q[k] = x /\ \A j \in 1 .. (k - 1) : q[j] # x
    IN  SubSeq(q, 1, i - 1) \o SubSeq(q, i + 1, Len(q))

Elems(q) == {q[i] : i \in 1 .. Len(q)}

\* min(connections, key=lambda connection: connection.time).time
MinConnectionTime(conns) ==
    LET ts == {conns[i].time : i \in 1 .. Len(conns)}
    IN  CHOOSE t \in ts : \A u \in ts : t <= u

\* valid_neighbours, once station `u` has left the queue `q`
ValidNeighbours(u, q) == (DOMAIN graph[u]) \cap Elems(q)

\* alt = dist[station_id] + min_connection.time
Alt(d, u, n) == Plus(d[u], MinConnectionTime(graph[u][n]))

\* update_neighbour_distances: each valid neighbour is relaxed from the same
\* station, so the order of the loop does not matter.
RelaxedDist(d, u, valid) ==
    [k \in DOMAIN d |-> IF k \in valid /\ Alt(d, u, k) < d[k] THEN Alt(d, u, k) ELSE d[k]]

RelaxedPrev(d, p, u, valid) ==
    [k \in DOMAIN p |-> IF k \in valid /\ Alt(d, u, k) < d[k] THEN u ELSE p[k]]

\* get_shortest_path up to its first return or to the first test of the
\* search loop.
get_shortest_path(start, end) ==
    /\ pc = "idle"
    /\ start_name' = start
    /\ end_name' = end
    /\ IF graph = EmptyDict \/ ~NamesKnown(start, end)
       THEN /\ result' = ReturnNone
            /\ pc' = "done"
            /\ UNCHANGED locals
       ELSE IF start \notin DOMAIN conversion_dict \/ end \notin DOMAIN conversion_dict
       THEN /\ result' = Raise("KeyError")
            /\ pc' = "done"
            /\ UNCHANGED locals
       ELSE /\ start_station_id' = conversion_dict[start]
            /\ end_station_id' = conversion_dict[end]
            /\ IF SameStation(conversion_dict[start], conversion_dict[end])
               THEN /\ result' = ReturnPath(<<stations[conversion_dict[start]]>>)
                    /\ pc' = "done"
                    /\ UNCHANGED <<dist, prev, queue, station_id, id_path>>
               ELSE /\ dist' = InitDist(conversion_dict[start])
                    /\ prev' = InitPrev
                    /\ queue' = InitQueue
                    /\ pc' = "search"
                    /\ UNCHANGED <<station_id, id_path, result>>
    /\ UNCHANGED <<network, bound, called>>

\* return self.reconstruct_path(end_station_id, prev) : its first two lines
EnterReconstruct ==
    /\ pc' = "reconstruct"
    /\ id_path' = EmptyList
    /\ station_id' = end_station_id

\* while len(queue) != 0 : the queue is empty
SearchExhausted ==
    /\ pc = "search"
    /\ Len(queue) = 0
    /\ EnterReconstruct
    /\ UNCHANGED <<network, bound, start_name, end_name, start_station_id,
                   end_station_id, dist, prev, queue, result, called>>

\* if station_id == end_station_id: break
SearchReachedEnd ==
    /\ pc = "search"
    /\ Len(queue) # 0
    /\ MinStation(queue, dist) = end_station_id
    /\ EnterReconstruct
    /\ UNCHANGED <<network, bound, start_name, end_name, start_station_id,
                   end_station_id, dist, prev, queue, result, called>>

\* A loop that would filter the neighbours of the visited station in place.
PrunedInPlace(u, q) ==
    [graph EXCEPT ![u] = [n \in ValidNeighbours(u, q) |-> graph[u][n]]]

\* neighbours = self.graph[station_id] is only read: valid_neighbours is a new
\* dict, so the graph after an iteration is the graph before it.
GraphAfterVisit(u, q) == graph

\* One full iteration of the loop: remove the station, relax its neighbours.
SearchVisit ==
    /\ pc = "search"
    /\ Len(queue) # 0
    /\ MinStation(queue, dist) # end_station_id
    /\ LET u == MinStation(queue, dist)
           q == Remove(queue, u)
           valid == ValidNeighbours(u, q)
       IN  /\ queue' = q
           /\ dist' = RelaxedDist(dist, u, valid)
           /\ prev' = RelaxedPrev(dist, prev, u, valid)
           /\ graph' = GraphAfterVisit(u, q)
    /\ UNCHANGED <<network, graph_keys, pc, start_name, end_name, start_station_id,
                   end_station_id, station_id, id_path, result, called>>

\* One iteration of `while station_id:` ; prev[station_id] raises KeyError
\* for a station that is no key of prev.
ReconstructStep ==
    /\ pc = "reconstruct"
    /\ Truthy(station_id)
    /\ id_path' = Append(id_path, station_id)
    /\ IF station_id \in DOMAIN prev
       THEN /\ station_id' = prev[station_id]
            /\ UNCHANGED <<pc, result>>
       ELSE /\ pc' = "done"
            /\ result' = Raise("KeyError")
            /\ UNCHANGED station_id
    /\ UNCHANGED <<network, bound, start_name, end_name, start_station_id,
                   end_station_id, dist, prev, queue, called>>

Reverse(s) == [i \in 1 .. Len(s) |-> s[Len(s) + 1 - i]]

\* The loop has ended: map the identifiers to stations and reverse.
ReconstructReturn ==
    /\ pc = "reconstruct"
    /\ ~Truthy(station_id)
    /\ pc' = "done"
    /\ IF Elems(id_path) \subseteq DOMAIN stations
       THEN result' = ReturnPath(Reverse([i \in 1 .. Len(id_path) |-> stations[id_path[i]]]))
       ELSE result' = Raise("KeyError")
    /\ UNCHANGED <<network, bound, start_name, end_name, locals, called>>

\* The call is over: its arguments and locals are gone.
ReturnToCaller ==
    /\ pc = "done"
    /\ pc' = "idle"
    /\ start_name' = ""
    /\ end_name' = ""
    /\ start_station_id' = None
    /\ end_station_id' = None
    /\ dist' = EmptyDict
    /\ prev' = EmptyDict
    /\ queue' = EmptyList
    /\ station_id' = None
    /\ id_path' = EmptyList
    /\ result' = Pending
    /\ called' = TRUE
    /\ UNCHANGED <<network, bound>>

Next ==
    \/ \E station1, station2 \in StationIds, time \in Times :
         initiate_connections(station1, station2, time)
    \/ \E sts \in ForeignShapes : AppendForeign(sts)
    \/ PathFinderInit
    \/ \E start, end \in QueryNames : get_shortest_path(start, end)
    \/ SearchExhausted
    \/ SearchReachedEnd
    \/ SearchVisit
    \/ ReconstructStep
    \/ ReconstructReturn
    \/ ReturnToCaller

Spec == Init /\ [][Next]_vars

\* The running call goes on to its end: the core is single-threaded and
\* synchronous, nothing suspends a query.
QueryStep ==
    \/ SearchExhausted
    \/ SearchReachedEnd
    \/ SearchVisit
    \/ ReconstructStep
    \/ ReconstructReturn

FairSpec == Spec /\ WF_vars(QueryStep)

\* ============================================================ properties
\* What the claims speak of, read off the input (stations, connections), not
\* off the graph the builder made.

ConnectionSet == {connections[i] : i \in 1 .. Len(connections)}

\* Every connection joins two distinct stations of the station collection.
WellFormed ==
    /\ collection = "list"
    /\ \A c \in ConnectionSet :
         Cardinality(c.stations) = 2 /\ c.stations \subseteq DOMAIN stations

Between(a, b) == {c \in ConnectionSet : c.stations = {a, b}}
Linked(a, b) == a # b /\ Between(a, b) # {}

\* The least time among the parallel connections of a hop.
HopTime(a, b) ==
    LET ts == {c.time : c \in Between(a, b)}
    IN  CHOOSE t \in ts : \A u \in ts : t <= u

Least(S) == CHOOSE x \in S : \A y \in S : x <= y

\* The least total time of a walk of at most k hops from a to b, Inf if none.
RECURSIVE BestWithin(_, _, _)
BestWithin(k, a, b) ==
    IF k = 0
    THEN IF a = b THEN 0 ELSE Inf
    ELSE Least({BestWithin(k - 1, a, b)} \cup
               {Plus(BestWithin(k - 1, a, c), HopTime(c, b)) :
                    c \in {x \in DOMAIN stations : Linked(x, b)}})

Best(a, b) == BestWithin(Cardinality(DOMAIN stations) - 1, a, b)
Chained(a, b) == Best(a, b) # Inf

\* p is a sequence of stations that leads from a to b along connections.
IsRoute(p, a, b) ==
    /\ Len(p) >= 1
    /\ p[1] = stations[a]
    /\ p[Len(p)] = stations[b]
    /\ \A i \in 1 .. (Len(p) - 1) : Linked(p[i].id, p[i + 1].id)

RECURSIVE RouteTimeFrom(_, _)
RouteTimeFrom(p, i) ==
    IF i >= Len(p) THEN 0 ELSE HopTime(p[i].id, p[i + 1].id) + RouteTimeFrom(p, i + 1)

RouteTime(p) == RouteTimeFrom(p, 1)

NoRepeat(p) == \A i, j \in 1 .. Len(p) : i # j => p[i] # p[j]

IsName(n) == \E k \in DOMAIN stations : stations[k].name = n
IdOf(n) == CHOOSE k \in DOMAIN stations : stations[k].name = n

\* A query between two distinct stations of the network has returned or raised.
DistinctQueryDone ==
    /\ pc = "done"
    /\ IsName(start_name)
    /\ IsName(end_name)
    /\ IdOf(start_name) # IdOf(end_name)

\* No local of the search has been given a value.
NoSearchState ==
    /\ dist = EmptyDict
    /\ prev = EmptyDict
    /\ queue = EmptyList
    /\ id_path = EmptyList
    /\ station_id = None

\* ---------------------------------------------------------------- C1
\* C1: for two distinct stations joined by a chain of connections, the query
\* returns a route from start to end whose total time, the sum of the least
\* time of each hop, is the least total time of any route between them.
C1_Optimality ==
    (DistinctQueryDone /\ WellFormed /\ Chained(IdOf(start_name), IdOf(end_name)))
        => /\ result.kind = "path"
           /\ IsRoute(result.path, IdOf(start_name), IdOf(end_name))
           /\ RouteTime(result.path) = Best(IdOf(start_name), IdOf(end_name))

\* ---------------------------------------------------------------- C2
\* C2: for two distinct stations with valid names and no chain of connections
\* between them, the query returns None.
C2_UnreachableIsNone ==
    (DistinctQueryDone /\ ~Chained(IdOf(start_name), IdOf(end_name)))
        => result.kind = "none"

\* ---------------------------------------------------------------- C3
\* C3: on a well-formed network no query raises: it returns a sequence of
\* stations or None.
C3_NeverRaises ==
    (WellFormed /\ pc = "done") => result.kind \in {"path", "none"}

\* ---------------------------------------------------------------- C4
\* The input of build is malformed: no connection collection, or a connection
\* that does not expose exactly two stations with identifiers.
Malformed ==
    \/ collection # "list"
    \/ \E c \in ConnectionSet : Cardinality(c.stations) # 2 \/ NoId \in c.stations

\* C4: build returns an empty graph and does not raise whenever its input is
\* malformed.
C4_MalformedGivesEmptyGraph ==
    (pc # "load" /\ Malformed) => (pc # "crashed" /\ graph = EmptyDict)

\* ---------------------------------------------------------------- C5
\* A query is running or has ended.
InQuery == pc \in {"search", "reconstruct", "done"}

\* The query in progress names the same station of the network twice.
SameNameQuery == InQuery /\ IsName(start_name) /\ end_name = start_name

ReturnedOnlyThatStation ==
    /\ pc = "done"
    /\ result = ReturnPath(<<stations[IdOf(start_name)]>>)
    /\ NoSearchState

C6_UnknownNameIsNone ==
    (InQuery /\ (~IsName(start_name) \/ ~IsName(end_name)))
        => /\ pc = "done"
           /\ result = ReturnNone
           /\ NoSearchState
           /\ start_station_id = None
           /\ end_station_id = None

C6_Witness ==
    /\ pc = "done"
    /\ graph # EmptyDict
    /\ IsName(start_name)
    /\ ~IsName(end_name)
    /\ result = ReturnNone

\* ---------------------------------------------------------------- C7
Built == pc \notin {"load", "crashed"}

Count(list, x) == Cardinality({i \in 1 .. Len(list) : list[i] = x})

SameMultiset(s, t) == \A x \in Elems(s) \cup Elems(t) : Count(s, x) = Count(t, x)

HasEntry(a, b) == a \in DOMAIN graph /\ b \in DOMAIN graph[a]

\* C7: the graph built from a well-formed network is symmetric: every
\* connection between A and B is in the list at graph[A][B] and in the list at
\* graph[B][A], and the two lists of every pair hold the same multiset.
C7_Symmetric ==
    (Built /\ WellFormed)
        => /\ \A c \in ConnectionSet : \A a, b \in c.stations :
                a # b => (HasEntry(a, b) /\ c \in Elems(graph[a][b]))
           /\ \A a \in DOMAIN graph : \A b \in DOMAIN graph[a] :
                HasEntry(b, a) /\ SameMultiset(graph[a][b], graph[b][a])

C7_Witness ==
    /\ Built
    /\ WellFormed
    /\ Len(connections) = MaxConns
    /\ Cardinality(DOMAIN graph) >= 3

\* ---------------------------------------------------------------- C8
\* The connections of the input on the pair {a, b}, in input order.
OnPair(a, b) ==
    LET joins(c) == c.stations = {a, b}
    IN  SelectSeq(connections, joins)

\* C8: for every pair of stations the entry of the built graph is the list of
\* the input's connections on that pair, each once and in input order; a pair
\* without a connection has no entry, so no entry is an empty list.
C8_ParallelKept ==
    (Built /\ WellFormed)
        => /\ \A a, b \in DOMAIN stations :
                a # b => IF OnPair(a, b) = EmptyList
                         THEN ~HasEntry(a, b)
                         ELSE HasEntry(a, b) /\ graph[a][b] = OnPair(a, b)
           /\ \A a \in DOMAIN graph :
                /\ DOMAIN graph[a] # {}
                /\ \A b \in DOMAIN graph[a] : graph[a][b] # EmptyList

C8_Witness ==
    /\ Built
    /\ WellFormed
    /\ \E a \in DOMAIN graph : \E b \in DOMAIN graph[a] :
         /\ Len(graph[a][b]) >= 2
         /\ graph[a][b][1].time > graph[a][b][2].time
         /\ Cardinality(DOMAIN graph[a]) >= 2

\* ---------------------------------------------------------------- C9
\* C9: every result that is not None is a sequence of stations from the start
\* station to the end station, consecutive stations joined by a connection,
\* no station twice, whatever the identifiers (0 included).
C9_ResultIsRoute ==
    (pc = "done" /\ result.kind = "path")
        => /\ IsRoute(result.path, IdOf(start_name), IdOf(end_name))
           /\ NoRepeat(result.path)

\* --------------------------------------------------------------- C10
\* Following prev from station x for n steps never comes back to x.
RECURSIVE ComesBack(_, _, _)
ComesBack(x, y, n) ==
    IF n = 0 \/ y \notin DOMAIN prev \/ prev[y] = None
    THEN FALSE
    ELSE prev[y] = x \/ ComesBack(x, prev[y], n - 1)

PrevAcyclic == \A x \in DOMAIN prev : ~ComesBack(x, x, Cardinality(DOMAIN prev))

Running == pc \in {"search", "reconstruct"}

\* What is left to do: the stations still queued and then the walk back,
\* which collects each station at most once.
Measure ==
    IF pc = "search"
    THEN Len(queue) + Cardinality(DOMAIN stations) + 2
    ELSE IF pc = "reconstruct"
    THEN Cardinality(DOMAIN stations) + 1 - Len(id_path)
    ELSE 0

\* C10: every query terminates: an iteration of the search loop leaves the
\* loop or removes exactly one station from the queue, the chain of prev has
\* no cycle and the walk back never meets a station twice; a running query
\* can always take its next step and every step brings it nearer to its end.
C10_Terminates ==
    /\ [][pc = "search" =>
            \/ pc' = "reconstruct"
            \/ /\ pc' = "search"
               /\ Len(queue') = Len(queue) - 1
               /\ \E x \in Elems(queue) : queue' = Remove(queue, x)]_vars
    /\ [](PrevAcyclic /\ NoRepeat(id_path)
          /\ (pc = "reconstruct" => station_id \notin Elems(id_path)))
    /\ [](Running => (Measure > 0 /\ ENABLED QueryStep))
    /\ [][Running => Measure' < Measure]_vars

\* The same as a property of behaviours: under FairSpec a running query
\* reaches its end.
QueryEnds == Running ~> (pc = "done")

\* A query over a cycle with a zero-time connection has ended, its walk back
\* three stations long although a direct connection joins start and end.
C10_Witness ==
    /\ DistinctQueryDone
    /\ result.kind = "path"
    /\ Len(id_path) >= 3
    /\ Linked(IdOf(start_name), IdOf(end_name))
    /\ \E c \in ConnectionSet : c.time = 0

\* --------------------------------------------------------------- C11
\* The query run on its own from fresh locals over the bound graph: the
\* search loop to its end, then the walk back.
RECURSIVE FreshSearch(_, _, _, _)
FreshSearch(d, p, q, end) ==
    IF Len(q) = 0 \/ MinStation(q, d) = end
    THEN p
    ELSE LET u == MinStation(q, d)
             rest == Remove(q, u)
             valid == ValidNeighbours(u, rest)
         IN  FreshSearch(RelaxedDist(d, u, valid), RelaxedPrev(d, p, u, valid), rest, end)

RECURSIVE FreshWalk(_, _, _)
FreshWalk(p, x, ids) ==
    IF ~Truthy(x)
    THEN ReturnPath(Reverse([i \in 1 .. Len(ids) |-> stations[ids[i]]]))
    ELSE IF x \notin DOMAIN p
    THEN Raise("KeyError")
    ELSE FreshWalk(p, p[x], Append(ids, x))

FreshAnswer(start, end) ==
    IF graph = EmptyDict \/ ~IsName(start) \/ ~IsName(end)
    THEN ReturnNone
    ELSE IF IdOf(start) = IdOf(end)
    THEN ReturnPath(<<stations[IdOf(start)]>>)
    ELSE FreshWalk(FreshSearch(InitDist(IdOf(start)), InitPrev, InitQueue, IdOf(end)),
                   IdOf(end), EmptyList)

\* The bound graph is one that build makes of the network.
GraphAsConstructed ==
    \E order \in [1 .. MaxConns -> BOOLEAN] :
        build(order) = [raised |-> "", graph |-> graph, keys |-> graph_keys]

\* Between calls nothing of a query is left.
NothingLeftOver ==
    /\ NoSearchState
    /\ start_station_id = None
    /\ end_station_id = None
    /\ start_name = ""
    /\ end_name = ""
    /\ result = Pending

\* C11: in any sequence of calls on one PathFinder, whatever exit each call
\* takes, no step of a query changes the bound graph, which stays the graph
\* built at construction; no distance, predecessor or queue outlives its
\* call; and every call, the first or a later one, ends with the result the
\* query gives when run on its own from fresh locals.
C11_QueriesLeaveNoTrace ==
    /\ [][Built => (graph' = graph /\ graph_keys' = graph_keys)]_vars
    /\ [](Built => GraphAsConstructed)
    /\ [](pc = "idle" => NothingLeftOver)
    /\ [](pc = "done" => result = FreshAnswer(start_name, end_name))

\* A call that follows an earlier one has searched a graph with parallel
\* connections and left the loop at the destination.
C11_Witness ==
    /\ called
    /\ pc = "done"
    /\ result.kind = "path"
    /\ Len(result.path) >= 3
    /\ Len(queue) >= 1
    /\ \E a \in DOMAIN graph : \E b \in DOMAIN graph[a] : Len(graph[a][b]) >= 2

\* ------------------------------------------------- where the results hold
\* No station that a chain of connections joins to station a has an
\* identifier that Python takes for false.
ClearOfFalsyIds(a) == \A k \in DOMAIN stations : Chained(a, k) => Truthy(k)

\* The search itself is optimal: the statement of C1 holds of every query
\* whose start station is chained to no station with a falsy identifier.
OptimalClearOfFalsyIds ==
    (DistinctQueryDone /\ WellFormed /\ Chained(IdOf(start_name), IdOf(end_name))
        /\ ClearOfFalsyIds(IdOf(start_name)))
        => /\ result.kind = "path"
           /\ IsRoute(result.path, IdOf(start_name), IdOf(end_name))
           /\ NoRepeat(result.path)
           /\ RouteTime(result.path) = Best(IdOf(start_name), IdOf(end_name))

\* What a query between two unchained stations gives instead of None: the
\* end station alone when it has a truthy identifier and is a key of the
\* graph, the empty list when its identifier is falsy, KeyError otherwise.
UnreachableOutcome ==
    (DistinctQueryDone /\ WellFormed /\ graph # EmptyDict
        /\ ~Chained(IdOf(start_name), IdOf(end_name)))
        => IF ~Truthy(IdOf(end_name))
           THEN result = ReturnPath(<< >>)
           ELSE IF IdOf(end_name) \in DOMAIN graph
           THEN result = ReturnPath(<<stations[IdOf(end_name)]>>)
           ELSE result = Raise("KeyError")

\* Of the malformed inputs, build answers those that raise AttributeError
\* with an empty graph: a missing collection, and a station without an
\* identifier met before any connection of another malformed shape.
AttributeErrorGivesEmptyGraph ==
    (pc # "load" /\ (collection # "list" \/
        (/\ \E c \in ConnectionSet : NoId \in c.stations
         /\ \A c \in ConnectionSet : Cardinality(c.stations) = 2)))
        => (pc # "crashed" /\ graph = EmptyDict)

====
